---- MODULE Spec2Model ----
(***************************************************************************)
(* A model of the Anki add-on file kanji_colorizer.py: the Profile class   *)
(* (configuration parsing, model matching, character selection, diagram    *)
(* application), the editFocusLost hook and the two bulk menu commands.    *)
(*                                                                         *)
(* Text is modelled as Python sees it: a string is a sequence of code      *)
(* points.  A note field is a sequence of items, an item being either a    *)
(* plain character or an <img src="..."> reference to a stored media file.  *)
(***************************************************************************)
EXTENDS Integers, Sequences, FiniteSets, TLC

VARIABLES
    config,     \* addon_config['profiles']: the list of profile records
    loaded,     \* "pending" | "ok" | "failed": the state of the module's load
    profiles,   \* the module-level list `profiles`
    notes,      \* the host's notes: note key -> [id, mid, fields]
    media,      \* the host's media store: the set of stored files
    last        \* what the most recent call did (an observation, not program state)

vars == <<config, loaded, profiles, notes, media, last>>

----------------------------------------------------------------------------
(* Bounds of the model *)

\* longest string drawn as an input of the pure functions
MaxLen == 3
\* longest model-name substring a profile is configured with
MaxSub == 2
\* longest configured list of profile records
MaxProfiles == 2

----------------------------------------------------------------------------
(* Strings *)

\* 'Kanji', the default source field
Kanji == <<75, 97, 110, 106, 105>>
\* 'Diagram', the default destination field
Diagram == <<68, 105, 97, 103, 114, 97, 109>>
\* 'japanese', the default model-name substring
japanese == <<106, 97, 112, 97, 110, 101, 115, 101>>
\* 'all' and 'kanji', the two named character policies
PolicyAll == <<97, 108, 108>>
PolicyKanji == <<107, 97, 110, 106, 105>>
\* the option words of the colorizer's command line
OptMode == <<45, 45, 109, 111, 100, 101, 32>>
OptGroupMode == <<32, 45, 45, 103, 114, 111, 117, 112, 45, 109, 111, 100, 101, 32>>
OptSaturation == <<32, 45, 45, 115, 97, 116, 117, 114, 97, 116, 105, 111, 110, 32>>
OptValue == <<32, 45, 45, 118, 97, 108, 117, 101, 32>>
OptImageSize == <<32, 45, 45, 105, 109, 97, 103, 101, 45, 115, 105, 122, 101, 32>>

\* str.lower() on one code point (the model's alphabet has no cased
\* characters outside ASCII)
LowerChar(c) == IF c >= 65 /\ c <= 90 THEN c + 32 ELSE c

\* str.lower()
Lower(s) == [i \in 1..Len(s) |-> LowerChar(s[i])]

\* Python's `a in b` on two strings
Contains(b, a) ==
    \E i \in 0..(Len(b) - Len(a)) : SubSeq(b, i + 1, i + Len(a)) = a

\* Python's `x in list`
InList(x, l) == \E i \in 1..Len(l) : l[i] = x

\* all sequences over S of length at most n
SeqUpTo(S, n) == UNION {[1..k -> S] : k \in 0..n}

----------------------------------------------------------------------------
(* Configuration values.  A value carries its Python type and its str()    *)
(* rendering; a string's rendering is the string itself.                   *)

Str(s) == [t |-> "str", v |-> s]
\* a number, given by the digits str() prints
Num(digits) == [t |-> "int", v |-> digits]
Bool(b) == [t |-> "bool", v |-> IF b THEN <<84, 114, 117, 101>> ELSE <<70, 97, 108, 115, 101>>]

\* str(x)
PyStr(x) == x.v

\* the truth value Python gives x in `if x:`
Truthy(x) ==
    CASE x.t = "bool" -> x.v = <<84, 114, 117, 101>>
      [] x.t = "str" -> x.v # <<>>
      [] OTHER -> x.v # <<48>>

Has(data, key) == key \in DOMAIN data

----------------------------------------------------------------------------
(* make_kanji_colorizer and Profile.__init__                               *)

\* The keys make_kanji_colorizer subscripts, in the order it reads them.
ColorizerKeys == <<"mode", "group-mode", "saturation", "value", "image-size">>

\* make_kanji_colorizer: the option string handed to KanjiColorizer, or the
\* exception raised on the way: data[key] of a missing key is a KeyError,
\* and `config += data["mode"]` of a non-string is a TypeError.
make_kanji_colorizer(data) ==
    IF ~Has(data, "mode") THEN [err |-> "KeyError", config |-> <<>>]
    ELSE IF data["mode"].t # "str" THEN [err |-> "TypeError", config |-> <<>>]
    ELSE IF \E i \in 2..5 : ~Has(data, ColorizerKeys[i])
         THEN [err |-> "KeyError", config |-> <<>>]
    ELSE [err |-> "",
          config |-> OptMode \o data["mode"].v
                     \o (IF Truthy(data["group-mode"]) THEN OptGroupMode ELSE <<>>)
                     \o OptSaturation \o PyStr(data["saturation"])
                     \o OptValue \o PyStr(data["value"])
                     \o OptImageSize \o PyStr(data["image-size"])]

\* data[key] if the key is there and its value's type is ty, else the default
KeyOr(data, key, ty, default) ==
    IF Has(data, key) /\ data[key].t = ty THEN data[key] ELSE default

\* Profile.__init__: the constructed profile, or the exception it raises
ProfileInit(data) ==
    LET kc == make_kanji_colorizer(data) IN
    IF kc.err # "" THEN [err |-> kc.err]
    ELSE IF ~Has(data, "diagrammed-characters") THEN [err |-> "KeyError"]
    ELSE [err |-> "",
          kanji_colorizer |-> kc.config,
          model_name_substr |->
              IF Has(data, "model") /\ data["model"].t = "str"
              THEN Lower(data["model"].v) ELSE japanese,
          src_field |-> KeyOr(data, "src-field", "str", Str(Kanji)).v,
          dst_field |-> KeyOr(data, "dst-field", "str", Str(Diagram)).v,
          overwrite_dest |-> KeyOr(data, "overwrite-dest", "bool", Bool(TRUE)) = Bool(TRUE),
          diagrammed_characters |-> data["diagrammed-characters"]]

\* profiles = [Profile(p) for p in profiles_json]: the list, or the first
\* exception, which ends the module's load
LoadProfiles(cfg) ==
    IF \E i \in 1..Len(cfg) : ProfileInit(cfg[i]).err # ""
    THEN [ok |-> FALSE, profiles |-> <<>>]
    ELSE [ok |-> TRUE, profiles |-> [i \in 1..Len(cfg) |-> ProfileInit(cfg[i])]]

----------------------------------------------------------------------------
(* is_kanji, characters_to_colorize, model_is_correct_type                 *)

\* first and last code point of the kanji range
KanjiFirst == 19968
KanjiLast == 40879

\* is_kanji with both ends of the range left out
is_kanji_Exclusive(c) == c > KanjiFirst /\ c < KanjiLast

is_kanji(c) == c >= KanjiFirst /\ c <= KanjiLast

\* [c for c in s if is_kanji(c)]
JustKanji(s) == SelectSeq(s, is_kanji)

characters_to_colorize(p, s) ==
    IF p.diagrammed_characters = Str(PolicyAll) THEN s
    ELSE IF p.diagrammed_characters = Str(PolicyKanji) THEN JustKanji(s)
    ELSE IF Len(JustKanji(s)) >= 1 THEN JustKanji(s)
    ELSE s

\* mw.col.models.fieldNames(model)
fieldNames(model) == model.flds

\* model_is_correct_type comparing the name as written, not lowercased
model_is_correct_type_CaseSensitive(p, model) ==
    /\ Contains(model.name, p.model_name_substr)
    /\ InList(p.src_field, fieldNames(model))
    /\ InList(p.dst_field, fieldNames(model))

model_is_correct_type(p, model) ==
    /\ Contains(Lower(model.name), p.model_name_substr)
    /\ InList(p.src_field, fieldNames(model))
    /\ InList(p.dst_field, fieldNames(model))

----------------------------------------------------------------------------
(* Field text, the renderer and the host's media store                     *)

\* a plain character of a field
Chr(c) == [img |-> FALSE, c |-> c, k |-> <<>>]

\* a plain string as field text
Text(s) == [i \in 1..Len(s) |-> Chr(s[i])]

\* '<img src="{!s}">'.format(anki_fname)
Img(anki_fname) == [img |-> TRUE, c |-> anki_fname.c, k |-> anki_fname.k]

IsPlain(item) == ~item.img

\* str(mw.col.media.strip(txt)): the text without its media references
strip(txt) ==
    LET plain == SelectSeq(txt, IsPlain) IN [i \in 1..Len(plain) |-> plain[i].c]

\* The characters KanjiVG has stroke data for; KanjiVG(c) raises
\* InvalidCharacterError for any other.  Of the model's alphabet: the kanji
\* U+65E5 and the hiragana U+3042 are drawable, the kanji U+9FAF (the last
\* of the range) and the euro sign are not.
Supported(c) == c \in {26085, 12354}

\* KanjiVG(character).ascii_filename: a name derived from the character alone
ascii_filename(c) == c

\* kanji_colorizer.get_colored_svg(character).encode('utf_8'): the image is
\* decided by the colorizer's options and the character
get_colored_svg(kanji_colorizer, c) == [c |-> c, options |-> kanji_colorizer]

\* the stored file of that name, if any
StoredAs(m, fname) == {f \in m : f.fname = fname}

\* mw.col.media.writeData(filename, data): the host writes the file under
\* the given name when that name is free, reuses the name when the stored
\* content is identical, and otherwise stores it under the name extended
\* with the content's checksum.  Returns the stored name.
writeData(m, filename, data) ==
    LET plain == [c |-> filename, k |-> <<>>]
        hashed == [c |-> filename, k |-> data.options]
    IN  IF StoredAs(m, plain) = {}
        THEN [fname |-> plain, media |-> m \cup {[fname |-> plain, data |-> data]}]
        ELSE IF [fname |-> plain, data |-> data] \in m
        THEN [fname |-> plain, media |-> m]
        ELSE [fname |-> hashed, media |-> m \cup {[fname |-> hashed, data |-> data]}]

----------------------------------------------------------------------------
(* Profile.addKanji                                                        *)

\* the loop of addKanji skipping the write of a file the store already holds
RECURSIVE RenderLoop_Cached(_, _, _)
RenderLoop_Cached(p, chars, st) ==
    IF chars = <<>> THEN st
    ELSE IF ~Supported(Head(chars)) THEN RenderLoop_Cached(p, Tail(chars), st)
    ELSE LET filename == ascii_filename(Head(chars))
             char_svg == get_colored_svg(p.kanji_colorizer, Head(chars))
             held == {f \in st.media : f.data = char_svg}
             w == writeData(st.media, filename, char_svg)
         IN  RenderLoop_Cached(p, Tail(chars),
                        [media |-> w.media,
                         dst |-> Append(st.dst, Img(w.fname)),
                         writes |-> IF held # {} THEN st.writes
                                    ELSE Append(st.writes, [filename |-> filename, data |-> char_svg])])

\* The loop of addKanji over the selected characters: st carries the media
\* store, the markup built so far and the media writes issued so far.
RECURSIVE RenderLoop(_, _, _)
RenderLoop(p, chars, st) ==
    IF chars = <<>> THEN st
    ELSE IF ~Supported(Head(chars)) THEN RenderLoop(p, Tail(chars), st)
    ELSE LET filename == ascii_filename(Head(chars))
             char_svg == get_colored_svg(p.kanji_colorizer, Head(chars))
             w == writeData(st.media, filename, char_svg)
         IN  RenderLoop(p, Tail(chars),
                        [media |-> w.media,
                         dst |-> Append(st.dst, Img(w.fname)),
                         writes |-> Append(st.writes, [filename |-> filename, data |-> char_svg])])

\* the outcome of one call when nothing is written to the note
Untouched(note, m, flag, why, oldDst, st) ==
    [raised |-> FALSE, ret |-> flag, note |-> note, media |-> m,
     flushed |-> FALSE, wrote |-> FALSE, path |-> why,
     oldDst |-> oldDst, dst |-> st.dst, writes |-> st.writes]

\* the decision without the overwrite_dest test of line 135
Decide_IgnoreOverwrite(p, note, flag, oldDst, st) ==
    IF st.dst # oldDst /\ st.dst # <<>>
    THEN [raised |-> FALSE, ret |-> TRUE,
          note |-> [note EXCEPT !.fields[p.dst_field] = st.dst],
          media |-> st.media,
          flushed |-> (note.id # 0), wrote |-> TRUE, path |-> "written",
          oldDst |-> oldDst, dst |-> st.dst, writes |-> st.writes]
    ELSE Untouched(note, st.media, flag, "same", oldDst, st)

\* the decision flushing every note it writes, saved or not
Decide_FlushAlways(p, note, flag, oldDst, st) ==
    IF oldDst # <<>> /\ ~p.overwrite_dest
    THEN Untouched(note, st.media, flag, "kept", oldDst, st)
    ELSE IF st.dst # oldDst /\ st.dst # <<>>
    THEN [raised |-> FALSE, ret |-> TRUE,
          note |-> [note EXCEPT !.fields[p.dst_field] = st.dst],
          media |-> st.media,
          flushed |-> TRUE, wrote |-> TRUE, path |-> "written",
          oldDst |-> oldDst, dst |-> st.dst, writes |-> st.writes]
    ELSE Untouched(note, st.media, flag, "same", oldDst, st)

\* the decision without the comparison with the old content of line 138
Decide_NoCompare(p, note, flag, oldDst, st) ==
    IF oldDst # <<>> /\ ~p.overwrite_dest
    THEN Untouched(note, st.media, flag, "kept", oldDst, st)
    ELSE IF st.dst # <<>>
    THEN [raised |-> FALSE, ret |-> TRUE,
          note |-> [note EXCEPT !.fields[p.dst_field] = st.dst],
          media |-> st.media,
          flushed |-> (note.id # 0), wrote |-> TRUE, path |-> "written",
          oldDst |-> oldDst, dst |-> st.dst, writes |-> st.writes]
    ELSE Untouched(note, st.media, flag, "same", oldDst, st)

\* the decision of addKanji once the markup is computed (lines 135-145)
Decide(p, note, flag, oldDst, st) ==
    IF oldDst # <<>> /\ ~p.overwrite_dest
    THEN Untouched(note, st.media, flag, "kept", oldDst, st)
    ELSE IF st.dst # oldDst /\ st.dst # <<>>
    THEN [raised |-> FALSE, ret |-> TRUE,
          note |-> [note EXCEPT !.fields[p.dst_field] = st.dst],
          media |-> st.media,
          flushed |-> (note.id # 0), wrote |-> TRUE, path |-> "written",
          oldDst |-> oldDst, dst |-> st.dst, writes |-> st.writes]
    ELSE Untouched(note, st.media, flag, "same", oldDst, st)

\* addKanji(note, flag, current_field_index) of profile p, on media store m.
\* current_field_index is -1 for None.  flds is the note's model's field list.
addKanji(p, note, flds, m, flag, current_field_index) ==
    LET none == [media |-> m, dst |-> <<>>, writes |-> <<>>] IN
    IF current_field_index # -1 /\ flds[current_field_index + 1] # p.src_field
    THEN Untouched(note, m, flag, "other-field", <<>>, none)
    ELSE IF p.src_field \notin DOMAIN note.fields \/ p.dst_field \notin DOMAIN note.fields
    THEN [raised |-> TRUE, ret |-> flag, note |-> note, media |-> m,
          flushed |-> FALSE, wrote |-> FALSE, path |-> "KeyError",
          oldDst |-> <<>>, dst |-> <<>>, writes |-> <<>>]
    ELSE LET srcTxt == strip(note.fields[p.src_field])
             oldDst == note.fields[p.dst_field]
             st == RenderLoop(p, characters_to_colorize(p, srcTxt), none)
         IN  Decide(p, note, flag, oldDst, st)

----------------------------------------------------------------------------
(* The host's collection                                                   *)

\* 'Extra', a field no profile names
Extra == <<69, 120, 116, 114, 97>>

\* mw.col.models.all(): a model named 'Japanese (Core 2000)' with both
\* default fields, a model 'Basic' with them in the other order, and a model
\* 'japanese' without a Diagram field.  A model's id is its place in the list.
Models ==
    << [id |-> 1, flds |-> <<Kanji, Diagram>>,
        name |-> <<74, 97, 112, 97, 110, 101, 115, 101, 32, 40, 67, 111, 114,
                   101, 32, 50, 48, 48, 48, 41>>],
       [id |-> 2, flds |-> <<Diagram, Kanji>>, name |-> <<66, 97, 115, 105, 99>>],
       [id |-> 3, flds |-> <<Kanji, Extra>>, name |-> japanese] >>

\* note.model()
ModelOf(note) == Models[note.mid]

\* The notes of the collection, by id; key 0 is the unsaved note of the Add
\* dialog (its note.id is 0), which is in no model's nids.
NoteIds == <<1, 2, 3>>
NoteKeys == {0, 1, 2, 3}

\* mw.col.models.nids(model)
nids(ns, model) ==
    LET OfModel(n) == ns[n].mid = model.id IN SelectSeq(NoteIds, OfModel)

\* [m for m in mw.col.models.all() if p.model_is_correct_type(m)]
MatchingModels(p) ==
    LET Matches(m) == model_is_correct_type(p, m) IN SelectSeq(Models, Matches)

\* the notes regenerate_all visits for one profile: model by model
RECURSIVE NidsOfModels(_, _)
NidsOfModels(ns, ms) ==
    IF ms = <<>> THEN <<>> ELSE nids(ns, Head(ms)) \o NidsOfModels(ns, Tail(ms))

\* mw.col.findNotes('(mid:.. or mid:..) src:_* dst:'): the notes of those
\* models whose src field is not empty and whose dst field is empty
findNotes(ns, ms, src_field, dst_field) ==
    LET Hit(n) == /\ \E i \in 1..Len(ms) : ms[i].id = ns[n].mid
                  /\ ns[n].fields[src_field] # <<>>
                  /\ ns[n].fields[dst_field] = <<>>
    IN  SelectSeq(NoteIds, Hit)

----------------------------------------------------------------------------
(* onFocusLost, regenerate_all, generate_for_new                           *)

\* what one call of addKanji did: profile i on note n
CallRecord(i, n, flag, idx, before, r) ==
    [p |-> i, n |-> n, flag |-> flag, idx |-> idx, before |-> before,
     after |-> r.note, raised |-> r.raised, ret |-> r.ret, path |-> r.path,
     flushed |-> r.flushed, wrote |-> r.wrote, oldDst |-> r.oldDst,
     dst |-> r.dst, writes |-> r.writes]

\* onFocusLost going on to the next profile when one leaves the note alone
RECURSIVE onFocusLost_FallThrough(_, _, _, _, _, _, _)
onFocusLost_FallThrough(profs, i, ns, m, flag, n, currentFieldIndex) ==
    IF i > Len(profs)
    THEN [ret |-> flag, notes |-> ns, media |-> m, calls |-> <<>>]
    ELSE IF model_is_correct_type(profs[i], ModelOf(ns[n]))
    THEN LET r == addKanji(profs[i], ns[n], ModelOf(ns[n]).flds, m, flag, currentFieldIndex)
             rest == onFocusLost_FallThrough(profs, i + 1, ns, r.media, flag, n, currentFieldIndex)
             call == <<CallRecord(i, n, flag, currentFieldIndex, ns[n], r)>>
         IN  IF r.wrote
             THEN [ret |-> r.ret, notes |-> [ns EXCEPT ![n] = r.note], media |-> r.media,
                   calls |-> call]
             ELSE [rest EXCEPT !.calls = call \o @]
    ELSE onFocusLost_FallThrough(profs, i + 1, ns, m, flag, n, currentFieldIndex)

\* onFocusLost(flag, note, currentFieldIndex), from profile i on
RECURSIVE onFocusLost(_, _, _, _, _, _, _)
onFocusLost(profs, i, ns, m, flag, n, currentFieldIndex) ==
    IF i > Len(profs)
    THEN [ret |-> flag, notes |-> ns, media |-> m, calls |-> <<>>]
    ELSE IF model_is_correct_type(profs[i], ModelOf(ns[n]))
    THEN LET r == addKanji(profs[i], ns[n], ModelOf(ns[n]).flds, m, flag, currentFieldIndex)
         IN  [ret |-> r.ret, notes |-> [ns EXCEPT ![n] = r.note], media |-> r.media,
              calls |-> <<CallRecord(i, n, flag, currentFieldIndex, ns[n], r)>>]
    ELSE onFocusLost(profs, i + 1, ns, m, flag, n, currentFieldIndex)

\* a bulk command's loop over notes: p.addKanji(mw.col.getNote(nid)) on each;
\* an exception ends the command
RECURSIVE SweepNotes(_, _, _, _)
SweepNotes(profs, i, keys, st) ==
    IF keys = <<>> \/ st.raised THEN st
    ELSE LET n == Head(keys)
             r == addKanji(profs[i], st.notes[n], ModelOf(st.notes[n]).flds, st.media, FALSE, -1)
         IN  SweepNotes(profs, i, Tail(keys),
                 [st EXCEPT !.notes[n] = r.note, !.media = r.media, !.raised = r.raised,
                            !.calls = Append(@, CallRecord(i, n, FALSE, -1, st.notes[n], r))])

\* a dialog, with the number of profiles whose sweep was over when it opened
Dialog(kind, text, st) == [kind |-> kind, text |-> text, swept |-> st.swept]

\* the state of a bulk command as it starts
Start(ns, m, question) ==
    [notes |-> ns, media |-> m, raised |-> FALSE, calls |-> <<>>, swept |-> 0,
     dialogs |-> <<[kind |-> "askUser", text |-> question, swept |-> 0]>>]

\* the loop of regenerate_all over the profiles, from profile i on
RECURSIVE RegenerateLoop(_, _, _)
RegenerateLoop(profs, i, st) ==
    IF st.raised THEN st
    ELSE IF i > Len(profs)
    THEN [st EXCEPT !.dialogs = Append(@, Dialog("showInfo", "Done regenerating", st))]
    ELSE LET models == MatchingModels(profs[i])
             done == SweepNotes(profs, i, NidsOfModels(st.notes, models), st)
         IN  RegenerateLoop(profs, i + 1, [done EXCEPT !.swept = IF done.raised THEN @ ELSE i])

\* regenerate_all(), the user answering askUser with `yes`
regenerate_all(profs, ns, m, yes) ==
    IF ~yes THEN Start(ns, m, "regenerate all?")
    ELSE RegenerateLoop(profs, 1, Start(ns, m, "regenerate all?"))

\* the loop of generate_for_new going on after a profile without a model
RECURSIVE GenerateLoop_KeepGoing(_, _, _)
GenerateLoop_KeepGoing(profs, i, st) ==
    IF st.raised THEN st
    ELSE IF i > Len(profs)
    THEN [st EXCEPT !.dialogs = Append(@, Dialog("showInfo", "Done generating", st))]
    ELSE LET models == MatchingModels(profs[i]) IN
         IF models = <<>>
         THEN GenerateLoop_KeepGoing(profs, i + 1,
                  [st EXCEPT !.dialogs = Append(@, Dialog("showInfo", "Can not find any relevant models", st))])
         ELSE LET found == findNotes(st.notes, models, profs[i].src_field, profs[i].dst_field)
                  done == SweepNotes(profs, i, found, st)
              IN  GenerateLoop_KeepGoing(profs, i + 1, [done EXCEPT !.swept = IF done.raised THEN @ ELSE i])

\* the loop of generate_for_new over the profiles, from profile i on
RECURSIVE GenerateLoop(_, _, _)
GenerateLoop(profs, i, st) ==
    IF st.raised THEN st
    ELSE IF i > Len(profs)
    THEN [st EXCEPT !.dialogs = Append(@, Dialog("showInfo", "Done generating", st))]
    ELSE LET models == MatchingModels(profs[i]) IN
         IF models = <<>>
         THEN [st EXCEPT !.dialogs = Append(@, Dialog("showInfo", "Can not find any relevant models", st))]
         ELSE LET found == findNotes(st.notes, models, profs[i].src_field, profs[i].dst_field)
                  done == SweepNotes(profs, i, found, st)
              IN  GenerateLoop(profs, i + 1, [done EXCEPT !.swept = IF done.raised THEN @ ELSE i])

\* generate_for_new(), the user answering askUser with `yes`
generate_for_new(profs, ns, m, yes) ==
    IF ~yes THEN Start(ns, m, "generate for new?")
    ELSE GenerateLoop(profs, 1, Start(ns, m, "generate for new?"))

----------------------------------------------------------------------------
(* Configurations and note contents the model starts from                  *)

\* a profile record with every key make_kanji_colorizer reads: mode
\* 'spectrum', saturation 0.95, value 0.75, image size 327
Record(mode, group, policy) ==
    "mode" :> Str(mode) @@ "group-mode" :> Bool(group)
    @@ "saturation" :> Num(<<48, 46, 57, 53>>) @@ "value" :> Num(<<48, 46, 55, 53>>)
    @@ "image-size" :> Num(<<51, 50, 55>>) @@ "diagrammed-characters" :> policy

Spectrum == <<115, 112, 101, 99, 116, 114, 117, 109>>
Contrast == <<99, 111, 110, 116, 114, 97, 115, 116>>

\* every other key left to its default: 'japanese', Kanji -> Diagram, overwrite
DefaultRecord == Record(Spectrum, FALSE, Str(PolicyAll))
\* model 'Japanese', kanji only, never overwriting, another rendering
KeepRecord ==
    Record(Contrast, FALSE, Str(PolicyKanji))
    @@ "model" :> Str(<<74, 97, 112, 97, 110, 101, 115, 101>>) @@ "overwrite-dest" :> Bool(FALSE)
\* model 'A' (any model with an a in its name), the mixed policy, grouped
AnyRecord == Record(Spectrum, TRUE, Str(<<>>)) @@ "model" :> Str(<<65>>)
\* model 'zz': no model of the collection
NoneRecord == Record(Spectrum, FALSE, Str(PolicyAll)) @@ "model" :> Str(<<122, 122>>)
\* the diagram written over the source field itself
SameFieldRecord == Record(Contrast, TRUE, Str(<<>>)) @@ "dst-field" :> Str(Kanji)

ValidRecords == {DefaultRecord, KeepRecord, AnyRecord, NoneRecord, SameFieldRecord}

\* the configured lists the collection is run with: none; each profile
\* alone; two profiles of one model, in either order of overwrite policy;
\* a profile without a model before and after one with a model
MainConfigs ==
    { <<>>, <<DefaultRecord>>, <<KeepRecord>>, <<SameFieldRecord>>,
      <<KeepRecord, DefaultRecord>>, <<DefaultRecord, AnyRecord>>,
      <<NoneRecord, DefaultRecord>>, <<DefaultRecord, NoneRecord>> }

\* source texts: empty; one kanji; kana then kanji; a character KanjiVG
\* lacks; a kanji twice around a kanji KanjiVG lacks; an image then a kana
SrcTexts ==
    { <<>>, Text(<<26085>>), Text(<<12354, 26085>>), Text(<<8364>>),
      Text(<<26085, 40879, 26085>>),
      <<Img([c |-> 26085, k |-> <<>>]), Chr(12354)>> }

\* destination texts: empty, or something the user typed
DstTexts == { <<>>, Text(<<120>>) }

NoteOf(id, mid, src, dst) ==
    [id |-> id, mid |-> mid, fields |-> (Kanji :> src @@ Diagram :> dst)]

InitialNotes ==
    { (0 :> NoteOf(0, 1, s0, d0) @@ 1 :> NoteOf(1, 1, s1, d1) @@ 2 :> NoteOf(2, 2, s2, d2)
       @@ 3 :> [id |-> 3, mid |-> 3, fields |-> (Kanji :> Text(<<26085>>) @@ Extra :> <<>>)]) :
      s0 \in {Text(<<26085>>), Text(<<8364>>)}, d0 \in DstTexts,
      s1 \in SrcTexts, d1 \in DstTexts,
      s2 \in {Text(<<12354, 26085>>)}, d2 \in DstTexts }

----------------------------------------------------------------------------
(* The add-on in a collection                                              *)

Init ==
    /\ config \in MainConfigs
    /\ loaded = "ok"
    /\ profiles = LoadProfiles(config).profiles
    /\ notes \in InitialNotes
    /\ media = {}
    /\ last = [op |-> "load"]

Observed(op, yes, flag, n, idx, ret, r) ==
    [op |-> op, yes |-> yes, flag |-> flag, n |-> n, idx |-> idx, ret |-> ret,
     calls |-> r.calls, dialogs |-> r.dialogs, raised |-> r.raised, swept |-> r.swept,
     notesBefore |-> notes, mediaBefore |-> media]

\* the host runs the editFocusLost hook: the user leaves field idx of note n
FocusLost(flag, n, idx) ==
    /\ loaded = "ok"
    /\ idx \in 0..(Len(ModelOf(notes[n]).flds) - 1)
    /\ LET r == onFocusLost(profiles, 1, notes, media, flag, n, idx) IN
       /\ notes' = r.notes
       /\ media' = r.media
       /\ last' = Observed("onFocusLost", TRUE, flag, n, idx, r.ret,
                           [calls |-> r.calls, dialogs |-> <<>>, raised |-> FALSE, swept |-> 0])
    /\ UNCHANGED <<config, loaded, profiles>>

\* the user picks "(re)generate all" and answers the question
RegenerateAll(yes) ==
    /\ loaded = "ok"
    /\ LET r == regenerate_all(profiles, notes, media, yes) IN
       /\ notes' = r.notes
       /\ media' = r.media
       /\ last' = Observed("regenerate_all", yes, FALSE, 0, -1, FALSE, r)
    /\ UNCHANGED <<config, loaded, profiles>>

\* the user picks "generate all new" and answers the question
GenerateForNew(yes) ==
    /\ loaded = "ok"
    /\ LET r == generate_for_new(profiles, notes, media, yes) IN
       /\ notes' = r.notes
       /\ media' = r.media
       /\ last' = Observed("generate_for_new", yes, FALSE, 0, -1, FALSE, r)
    /\ UNCHANGED <<config, loaded, profiles>>

Next ==
    \/ \E flag \in BOOLEAN, n \in NoteKeys, idx \in {0, 1} : FocusLost(flag, n, idx)
    \/ \E yes \in BOOLEAN : RegenerateAll(yes)
    \/ \E yes \in BOOLEAN : GenerateForNew(yes)

Spec == Init /\ [][Next]_vars

----------------------------------------------------------------------------
(* The module's load, over records with keys missing or of another type   *)

\* data without one key
Without(data, key) == [k \in DOMAIN data \ {key} |-> data[k]]

\* model, src-field, dst-field and overwrite-dest all of a wrong type
WrongTypesRecord ==
    Record(Spectrum, FALSE, Num(<<49>>))
    @@ "model" :> Num(<<53>>) @@ "src-field" :> Bool(TRUE)
    @@ "dst-field" :> Num(<<55>>) @@ "overwrite-dest" :> Str(<<110, 111>>)

\* saturation, value and image-size given as strings, group-mode as a number
LooseOptionsRecord ==
    "mode" :> Str(Contrast) @@ "group-mode" :> Num(<<49>>)
    @@ "saturation" :> Str(<<49>>) @@ "value" :> Str(<<>>)
    @@ "image-size" :> Str(<<51, 50, 55>>) @@ "diagrammed-characters" :> Bool(FALSE)

LoadRecords ==
    { DefaultRecord, KeepRecord, WrongTypesRecord, LooseOptionsRecord,
      DefaultRecord @@ "mode" :> Num(<<53>>) }
    \cup { Without(DefaultRecord, key) : key \in DOMAIN DefaultRecord }

\* a collection nothing is done to
QuietNotes == CHOOSE ns \in InitialNotes : TRUE

InitLoad ==
    /\ config \in SeqUpTo(LoadRecords, MaxProfiles)
    /\ loaded = "pending"
    /\ profiles = <<>>
    /\ notes = QuietNotes
    /\ media = {}
    /\ last = [op |-> "start"]

\* the module body, lines 149-153
LoadAddon ==
    /\ loaded = "pending"
    /\ LET r == LoadProfiles(config) IN
       /\ loaded' = IF r.ok THEN "ok" ELSE "failed"
       /\ profiles' = r.profiles
    /\ last' = [op |-> "load"]
    /\ UNCHANGED <<config, notes, media>>

NextLoad == LoadAddon

SpecLoad == InitLoad /\ [][NextLoad]_vars

----------------------------------------------------------------------------
(* characters_to_colorize over bounded strings                             *)

\* code points around both ends of the kanji range, one inside it, one kana
CharAlphabet == {19967, 19968, 26085, 40879, 40880, 12354}

\* 'all', 'kanji', the empty string, 'Kanji' (not a policy name), a number
Policies == { Str(PolicyAll), Str(PolicyKanji), Str(<<>>), Str(Kanji), Num(<<49>>) }

InitChars ==
    /\ config \in { <<Record(Spectrum, FALSE, policy)>> : policy \in Policies }
    /\ loaded = "ok"
    /\ profiles = LoadProfiles(config).profiles
    /\ notes = QuietNotes
    /\ media = {}
    /\ last = [op |-> "load"]

\* one call of the function on the loaded profile
Colorize(s) ==
    /\ last.op = "load"
    /\ last' = [op |-> "characters_to_colorize", s |-> s,
                ret |-> characters_to_colorize(profiles[1], s)]
    /\ UNCHANGED <<config, loaded, profiles, notes, media>>

NextChars == \E s \in SeqUpTo(CharAlphabet, MaxLen) : Colorize(s)

SpecChars == InitChars /\ [][NextChars]_vars

----------------------------------------------------------------------------
(* model_is_correct_type over bounded models                               *)

\* J, j and a
NameAlphabet == {74, 106, 97}

FieldLists ==
    { <<>>, <<Kanji>>, <<Diagram>>, <<Kanji, Diagram>>, <<Kanji, Extra>>,
      <<Extra, Diagram, Kanji>> }

InitMatch ==
    /\ config \in { <<DefaultRecord>>, <<DefaultRecord @@ "src-field" :> Str(Extra)>> }
                  \cup { <<DefaultRecord @@ "model" :> Str(sub)>> :
                         sub \in SeqUpTo(NameAlphabet, MaxSub) }
                  \cup { <<DefaultRecord @@ "model" :> Str(sub) @@ "dst-field" :> Str(Extra)>> :
                         sub \in SeqUpTo(NameAlphabet, MaxSub) }
    /\ loaded = "ok"
    /\ profiles = LoadProfiles(config).profiles
    /\ notes = QuietNotes
    /\ media = {}
    /\ last = [op |-> "load"]

\* one call of the function on the loaded profile
Match(model) ==
    /\ last.op = "load"
    /\ last' = [op |-> "model_is_correct_type", model |-> model,
                ret |-> model_is_correct_type(profiles[1], model)]
    /\ UNCHANGED <<config, loaded, profiles, notes, media>>

NextMatch ==
    \E name \in SeqUpTo(NameAlphabet, MaxLen) \cup {Models[1].name, Models[3].name},
       flds \in FieldLists :
        Match([id |-> 1, name |-> name, flds |-> flds])

SpecMatch == InitMatch /\ [][NextMatch]_vars

----------------------------------------------------------------------------
(* Properties                                                              *)

\* the calls of addKanji the last command made, in order
Calls ==
    IF last.op \in {"onFocusLost", "regenerate_all", "generate_for_new"}
    THEN last.calls ELSE <<>>

CallSet == {Calls[k] : k \in 1..Len(Calls)}

\* the destination field of a note, for the profile of a call
DstIn(call, note) == note.fields[profiles[call.p].dst_field]

\* a call the exited-field check lets through
NotShortCircuited(call) ==
    \/ call.idx = -1
    \/ ModelOf(call.before).flds[call.idx + 1] = profiles[call.p].src_field

\* the profiles that accept a note's model
Accepting(note) ==
    {i \in 1..Len(profiles) : model_is_correct_type(profiles[i], ModelOf(note))}

\* the kanji of s in order, by the range itself
RECURSIVE KanjiSubsequence(_)
KanjiSubsequence(s) ==
    IF s = <<>> THEN <<>>
    ELSE IF Head(s) \in 19968..40879
    THEN <<Head(s)>> \o KanjiSubsequence(Tail(s))
    ELSE KanjiSubsequence(Tail(s))

\* a name with its capital letters (those the model's names use) lowered
LoweredName(name) ==
    [i \in 1..Len(name) |->
        CASE name[i] = 74 -> 106 [] name[i] = 67 -> 99 [] name[i] = 66 -> 98
          [] OTHER -> name[i]]

\* sub is a run of consecutive characters of name
IsRunOf(sub, name) ==
    \E i \in 0..Len(name) : \E j \in i..Len(name) : SubSeq(name, i + 1, j) = sub

\* C2: the module's load never fails: whatever keys of a profile record are
\* missing or of a wrong type, every configured record becomes a Profile.
C2_LoadNeverFails ==
    loaded # "pending" => (loaded = "ok" /\ Len(profiles) = Len(config))

C1_RegenerateOverwrites ==
    (last.op = "regenerate_all" /\ last.yes /\ ~last.raised) =>
        /\ \A n \in {1, 2, 3} : \A i \in Accepting(last.notesBefore[n]) :
               \E call \in CallSet : call.p = i /\ call.n = n
        /\ \A call \in CallSet :
               call.dst # <<>> => DstIn(call, call.after) = call.dst

C4_OverwriteWrites ==
    \A call \in CallSet :
        (profiles[call.p].overwrite_dest /\ NotShortCircuited(call)) =>
            IF call.dst # <<>> /\ call.dst # DstIn(call, call.before)
            THEN /\ DstIn(call, call.after) = call.dst
                 /\ call.wrote
                 /\ call.flushed = (call.before.id # 0)
                 /\ call.ret = TRUE
            ELSE /\ call.after = call.before
                 /\ ~call.wrote
                 /\ ~call.flushed
                 /\ call.ret = call.flag

\* the unsaved note of the Add dialog gets its diagram and is not flushed
C4_Witness ==
    \E call \in CallSet :
        /\ profiles[call.p].overwrite_dest
        /\ NotShortCircuited(call)
        /\ call.before.id = 0
        /\ call.wrote /\ ~call.flushed
        /\ ~call.flag /\ call.ret
        /\ DstIn(call, notes[call.n]) = call.dst

\* C7: the hook runs addKanji of exactly one profile, the first that accepts
\* the note's model, and returns its result; when that profile's source
\* field is not the field left, or no profile accepts the model, the flag
\* comes back unchanged and neither the notes nor the media store change.
C7_FirstMatchingProfile ==
    last.op = "onFocusLost" =>
        LET note == last.notesBefore[last.n]
            accepting == Accepting(note)
            first == CHOOSE i \in accepting : \A j \in accepting : i <= j
            quiet == /\ last.ret = last.flag
                     /\ notes = last.notesBefore
                     /\ media = last.mediaBefore
        IN  IF accepting = {} THEN Calls = <<>> /\ quiet
            ELSE /\ Len(Calls) = 1
                 /\ Calls[1].p = first
                 /\ Calls[1].n = last.n
                 /\ last.ret = Calls[1].ret
                 /\ (ModelOf(note).flds[last.idx + 1] # profiles[first].src_field) => quiet

\* two profiles accept the model; the first leaves the note alone because
\* another field was left, and the second is not run
C7_Witness ==
    /\ last.op = "onFocusLost"
    /\ Cardinality(Accepting(last.notesBefore[last.n])) = 2
    /\ Len(Calls) = 1
    /\ Calls[1].p = 1
    /\ ~NotShortCircuited(Calls[1])
    /\ last.flag /\ last.ret

\* the informational dialogs of the last command, by place in its dialogs
InfoDialogs ==
    IF last.op \in {"regenerate_all", "generate_for_new"}
    THEN {k \in 1..Len(last.dialogs) : last.dialogs[k].kind = "showInfo"}
    ELSE {}

\* a report of success opened once every profile's sweep is over
SuccessAtEnd(d) ==
    /\ d.text \in {"Done regenerating", "Done generating"}
    /\ d.swept = Len(profiles)

\* the profiles that accept no model of the collection
Modelless == {i \in 1..Len(profiles) : MatchingModels(profiles[i]) = <<>>}

\* C8 as stated: every informational dialog of a bulk command reports
\* success and opens after the sweep has covered every profile.
C8_OnlySuccessAtEnd ==
    \A k \in InfoDialogs : SuccessAtEnd(last.dialogs[k])

\* C8 as amended: a bulk command shows at most one informational dialog, as
\* its last step.  For regenerate_all it is the report of success after the
\* sweep of every profile.  For generate_for_new it is that report when every
\* profile accepts some model, and otherwise the notice that no relevant
\* model was found, opened at the first profile that accepts none, the
\* profiles after it not swept.
C8_InfoDialogs ==
    \A k \in InfoDialogs :
        LET d == last.dialogs[k] IN
        /\ k = Len(last.dialogs)
        /\ InfoDialogs = {k}
        /\ \/ /\ SuccessAtEnd(d)
              /\ d.text = (IF last.op = "regenerate_all"
                           THEN "Done regenerating" ELSE "Done generating")
              /\ last.op = "generate_for_new" => Modelless = {}
              /\ last.swept = Len(profiles)
           \/ /\ last.op = "generate_for_new"
              /\ d.text = "Can not find any relevant models"
              /\ d.swept + 1 \in Modelless
              /\ \A i \in Modelless : d.swept + 1 <= i
              /\ last.swept = d.swept
              /\ \A call \in CallSet : call.p <= d.swept

\* generate_for_new stops at its second profile, which has no model, after
\* the first profile's sweep gave a note its diagram
C8_Witness ==
    /\ last.op = "generate_for_new"
    /\ Len(profiles) = 2
    /\ \E k \in InfoDialogs :
           /\ last.dialogs[k].text = "Can not find any relevant models"
           /\ last.dialogs[k].swept = 1
    /\ \E call \in CallSet : call.wrote

\* the media writes addKanji owes for a note: one for each selected
\* character KanjiVG accepts, in order
ExpectedWrites(p, note) ==
    LET selected == characters_to_colorize(p, strip(note.fields[p.src_field]))
        accepted == SelectSeq(selected, Supported)
    IN  [i \in 1..Len(accepted) |->
            [filename |-> accepted[i],
             data |-> [c |-> accepted[i], options |-> p.kanji_colorizer]]]

\* C9: every call of addKanji the exited-field check lets through issues
\* one media write per selected character the renderer accepts, one per
\* occurrence and in order, whether or not the destination field changes.
C9_WritesPerCharacter ==
    \A call \in CallSet :
        IF NotShortCircuited(call)
        THEN Len(call.writes) = Len(ExpectedWrites(profiles[call.p], call.before))
             /\ \A i \in 1..Len(call.writes) :
                    call.writes[i] = ExpectedWrites(profiles[call.p], call.before)[i]
        ELSE call.writes = <<>>

\* a kept destination: the same kanji is written twice, the kanji between
\* them that KanjiVG lacks is skipped, and the note is left alone
C9_Witness ==
    \E call \in CallSet :
        /\ ~profiles[call.p].overwrite_dest
        /\ DstIn(call, call.before) # <<>>
        /\ call.after = call.before
        /\ strip(call.before.fields[profiles[call.p].src_field]) = <<26085, 40879, 26085>>
        /\ Len(call.writes) = 2
        /\ call.writes[1] = call.writes[2]

\* a second addKanji of the last call's profile on the note as it now is
Again(call, flag) ==
    addKanji(profiles[call.p], notes[call.n], ModelOf(notes[call.n]).flds, media,
             flag, call.idx)

\* addKanji applied twice: the call that ended the last command, applied
\* again to the same note, changes nothing, flushes nothing and returns its
\* flag
SecondCallIdle ==
    Calls # <<>> =>
        LET call == Calls[Len(Calls)] IN
        \A flag \in BOOLEAN :
            /\ Again(call, flag).note = notes[call.n]
            /\ ~Again(call, flag).wrote
            /\ ~Again(call, flag).flushed
            /\ Again(call, flag).ret = flag

\* the last command was a confirmed regenerate_all that completed
Regenerated == last.op = "regenerate_all" /\ last.yes /\ ~last.raised

\* C10 as stated: addKanji applied twice changes nothing the second time,
\* and a second regenerate_all right after a completed one mutates no note.
C10_Idempotent ==
    /\ SecondCallIdle
    /\ Regenerated =>
           LET again == regenerate_all(profiles, notes, media, TRUE) IN
           /\ again.notes = notes
           /\ \A k \in 1..Len(again.calls) : ~again.calls[k].wrote

\* C10 as amended: addKanji applied twice changes nothing the second time,
\* and a second regenerate_all right after a completed one mutates no note
\* whose model is accepted by at most one profile.
C10_IdempotentPerProfile ==
    /\ SecondCallIdle
    /\ Regenerated =>
           LET again == regenerate_all(profiles, notes, media, TRUE) IN
           \A n \in NoteKeys :
               Cardinality(Accepting(notes[n])) <= 1 =>
                   /\ again.notes[n] = notes[n]
                   /\ \A k \in 1..Len(again.calls) :
                          again.calls[k].n = n => ~again.calls[k].wrote

\* a regenerate_all that wrote a diagram into a note of a model one profile
\* accepts; the second leaves it alone
C10_Witness ==
    /\ Regenerated
    /\ \E call \in CallSet :
           /\ call.wrote
           /\ Cardinality(Accepting(notes[call.n])) = 1
           /\ notes[call.n] = call.after
           /\ regenerate_all(profiles, notes, media, TRUE).notes[call.n] = notes[call.n]

====
